---- MODULE Spec2Model ----
(***************************************************************************)
(* EnViT5 translation service (src/main.py): the /translate and /health    *)
(* handlers, request validation by the TranslateRequest model, and the     *)
(* two string helpers _build_model_input and _strip_lang_prefix.           *)
(* Strings are sequences of one-character strings.                         *)
(***************************************************************************)
EXTENDS Integers, Sequences, FiniteSets

VARIABLES MODEL_NAME, device, tokenizer, model,
          pc, raw, req, input_text, gen_args, sequences, fault, calls, result,
          health, fn

globals == <<MODEL_NAME, device, tokenizer, model>>
locals  == <<pc, raw, req, input_text, gen_args, sequences, fault, calls, result>>
vars    == <<MODEL_NAME, device, tokenizer, model,
             pc, raw, req, input_text, gen_args, sequences, fault, calls, result,
             health, fn>>

----------------------------------------------------------------------------
(* Bounds *)

MaxLen == 5
MaxTextLen == 2
NumProcs == 2

----------------------------------------------------------------------------
(* Characters and strings *)

Alphabet == {"e", "n", "v", "i", ":", " ", "H"}
TextAlphabet == {" ", "H"}
Whitespace == {" ", "\t", "\n", "\r"}

StringsOver(A, n) == UNION {[1..k -> A] : k \in 0..n}

StartsWith(s, prefix) ==
    /\ Len(s) >= Len(prefix)
    /\ SubSeq(s, 1, Len(prefix)) = prefix

DropFirst(s, n) == SubSeq(s, n + 1, Len(s))

RECURSIVE LStrip(_)
LStrip(s) ==
    IF s # <<>> /\ Head(s) \in Whitespace THEN LStrip(Tail(s)) ELSE s

RECURSIVE RStrip(_)
RStrip(s) ==
    IF s # <<>> /\ s[Len(s)] \in Whitespace
    THEN RStrip(SubSeq(s, 1, Len(s) - 1))
    ELSE s

Strip(s) == RStrip(LStrip(s))

----------------------------------------------------------------------------
(* LanguageEnum and the helper functions *)

en == <<"e", "n">>
vi == <<"v", "i">>
LanguageEnum == {en, vi}

Prefixes == << <<"e", "n", ":">>, <<"v", "i", ":">> >>

build_model_input_nospace(text, source_lang) == source_lang \o <<":">> \o text

build_model_input(text, source_lang) == source_lang \o <<":", " ">> \o text

RECURSIVE StripFrom(_, _)
StripFrom(output, i) ==
    IF i > Len(Prefixes) THEN Strip(output)
    ELSE IF StartsWith(output, Prefixes[i])
         THEN Strip(DropFirst(output, Len(Prefixes[i])))
         ELSE StripFrom(output, i + 1)

RECURSIVE CutFrom(_, _)
CutFrom(output, i) ==
    IF i > Len(Prefixes) THEN Strip(output)
    ELSE IF StartsWith(output, Prefixes[i])
         THEN DropFirst(output, Len(Prefixes[i]))
         ELSE CutFrom(output, i + 1)

strip_lang_prefix_notrim(output) == CutFrom(output, 1)

strip_lang_prefix(output) == StripFrom(output, 1)

----------------------------------------------------------------------------
(* TranslateRequest: fields, constraints and validation *)

MaxLengthDefault == 256
MaxLengthGe == 1
MaxLengthLe == 512
NumBeams == 4

\* the max_length of a submitted body: omitted, null, an integer, or a value
\* that does not parse as an integer
Absent  == [kind |-> "absent", value |-> 0]
Null    == [kind |-> "null", value |-> 0]
NonInt  == [kind |-> "nonint", value |-> 0]
IntOf(v) == [kind |-> "int", value |-> v]

MaxLengthOkNoUpper(ml) ==
    CASE ml.kind = "absent" -> TRUE
      [] ml.kind = "null"   -> TRUE
      [] ml.kind = "int"    -> ml.value >= MaxLengthGe
      [] OTHER              -> FALSE

MaxLengthOk(ml) ==
    CASE ml.kind = "absent" -> TRUE
      [] ml.kind = "null"   -> TRUE
      [] ml.kind = "int"    -> ml.value >= MaxLengthGe /\ ml.value <= MaxLengthLe
      [] OTHER              -> FALSE

SourceLangOkAnyCase(sl) == sl \in LanguageEnum \cup {<<"E", "N">>, <<"V", "I">>}

SourceLangOk(sl) == sl \in LanguageEnum

NoErrors(body) == <<>>

ValidationErrors(body) ==
       (IF body.has_text THEN <<>> ELSE <<"text">>)
    \o (IF SourceLangOk(body.source_lang) THEN <<>> ELSE <<"source_lang">>)
    \o (IF MaxLengthOk(body.max_length) THEN <<>> ELSE <<"max_length">>)

None == [is_none |-> TRUE, value |-> 0]
Some(v) == [is_none |-> FALSE, value |-> v]

TranslateRequest(body) ==
    [text        |-> body.text,
     source_lang |-> body.source_lang,
     max_length  |-> CASE body.max_length.kind = "absent" -> Some(MaxLengthDefault)
                       [] body.max_length.kind = "null"   -> None
                       [] OTHER -> Some(body.max_length.value)]

OrDefault(ml) ==
    IF ml.is_none \/ ml.value = 0 THEN MaxLengthDefault ELSE ml.value

----------------------------------------------------------------------------
(* Outcomes of a request *)

NoResult ==
    [kind |-> "none", status |-> 0, detail |-> <<>>,
     translated_text |-> <<>>, raw_output |-> <<>>]

RequestValidationError(fields) ==
    [kind |-> "validation_error", status |-> 422, detail |-> fields,
     translated_text |-> <<>>, raw_output |-> <<>>]

HTTPExceptionNoCause(status_code, detail) ==
    [kind |-> "http_exception", status |-> status_code, detail |-> <<detail[1]>>,
     translated_text |-> <<>>, raw_output |-> <<>>]

HTTPException(status_code, detail) ==
    [kind |-> "http_exception", status |-> status_code, detail |-> detail,
     translated_text |-> <<>>, raw_output |-> <<>>]

Unhandled(e) ==
    [kind |-> "unhandled", status |-> 500, detail |-> <<"Internal Server Error">>,
     translated_text |-> <<>>, raw_output |-> <<>>]

RawOnlyResponse(cleaned, decoded) ==
    [kind |-> "response", status |-> 200, detail |-> <<>>,
     translated_text |-> decoded, raw_output |-> decoded]

TranslateResponse(cleaned, decoded) ==
    [kind |-> "response", status |-> 200, detail |-> <<>>,
     translated_text |-> cleaned, raw_output |-> decoded]

NoHealth == [status |-> "", device |-> "", model_name |-> ""]

----------------------------------------------------------------------------
(* Inputs *)

Procs == 1..NumProcs

Faults == {"CUDA out of memory", "index out of range in self"}

RawLangs == LanguageEnum \cup {<<"f", "r">>, <<"E", "N">>, <<>>}

RawMaxLengths ==
    {Absent, Null, NonInt} \cup
    {IntOf(v) : v \in {MaxLengthGe - 2, MaxLengthGe - 1, MaxLengthGe, MaxLengthGe + 1,
                       MaxLengthDefault,
                       MaxLengthLe - 1, MaxLengthLe, MaxLengthLe + 1}}

Bodies(Texts, Langs, MaxLengths) ==
    {[has_text |-> TRUE, text |-> t, source_lang |-> l, max_length |-> m] :
        t \in Texts, l \in Langs, m \in MaxLengths}
    \cup
    {[has_text |-> FALSE, text |-> <<>>, source_lang |-> l, max_length |-> m] :
        l \in Langs, m \in MaxLengths}

AllBodies == Bodies(StringsOver(TextAlphabet, MaxTextLen), RawLangs, RawMaxLengths)

FewBodies == Bodies({<<"H">>}, {en, vi, <<"f", "r">>}, {Absent, IntOf(MaxLengthGe)})

\* decoded model outputs: optional leading blank, optional marker, optional
\* blank, optional body, optional trailing blank
ModelOutputs ==
    {a \o m \o b \o t \o c :
        a \in {<<>>, <<" ">>},
        m \in {<<>>, <<"e", "n", ":">>, <<"v", "i", ":">>, <<"E", "N", ":">>},
        b \in {<<>>, <<" ">>},
        t \in {<<>>, <<"H">>},
        c \in {<<>>, <<" ">>}}

FewOutputs == {<<"e", "n", ":", " ", "H">>, <<"H">>}

NoBody == [has_text |-> FALSE, text |-> <<>>, source_lang |-> <<>>, max_length |-> Absent]
NoReq  == [text |-> <<>>, source_lang |-> <<>>, max_length |-> None]
NoArgs == [batch |-> 0, max_length |-> 0, num_beams |-> 0]
NoFault == [at |-> "", e |-> ""]
NoCalls == [tokenizer |-> 0, generate |-> 0, batch_decode |-> 0]
NoFn == [op |-> "none", text |-> <<>>, lang |-> <<>>, out |-> <<>>, out2 |-> <<>>, n |-> 0]

----------------------------------------------------------------------------
(* Startup: lines 23-33 *)

Startup ==
    /\ MODEL_NAME = "VietAI/envit5-translation"
    /\ device \in {"cuda", "cpu"}
    /\ tokenizer = [pretrained |-> MODEL_NAME]
    /\ model = [pretrained |-> MODEL_NAME, device |-> device, training |-> FALSE]
    /\ pc = [p \in Procs |-> "idle"]
    /\ raw = [p \in Procs |-> NoBody]
    /\ req = [p \in Procs |-> NoReq]
    /\ input_text = [p \in Procs |-> <<>>]
    /\ gen_args = [p \in Procs |-> NoArgs]
    /\ sequences = [p \in Procs |-> <<>>]
    /\ fault = [p \in Procs |-> NoFault]
    /\ calls = [p \in Procs |-> NoCalls]
    /\ result = [p \in Procs |-> NoResult]
    /\ health = NoHealth

Init == Startup /\ fn = NoFn

----------------------------------------------------------------------------
(* Request handling *)

\* the framework parses the body into TranslateRequest before calling translate
ReceiveRejected(p, bodies) ==
    /\ pc[p] = "idle"
    /\ \E body \in bodies :
         /\ ValidationErrors(body) # <<>>
         /\ raw' = [raw EXCEPT ![p] = body]
         /\ result' = [result EXCEPT ![p] = RequestValidationError(ValidationErrors(body))]
    /\ pc' = [pc EXCEPT ![p] = "done"]
    /\ UNCHANGED <<globals, req, input_text, gen_args, sequences, fault, calls, health, fn>>

ReceiveAccepted(p, bodies) ==
    /\ pc[p] = "idle"
    /\ \E body \in bodies :
         /\ ValidationErrors(body) = <<>>
         /\ raw' = [raw EXCEPT ![p] = body]
         /\ req' = [req EXCEPT ![p] = TranslateRequest(body)]
    /\ pc' = [pc EXCEPT ![p] = "translate"]
    /\ UNCHANGED <<globals, input_text, gen_args, sequences, fault, calls, result, health, fn>>

TokenizeOkShared(p) ==
    /\ pc[p] = "translate"
    /\ input_text' = [q \in Procs |-> build_model_input(req[p].text, req[p].source_lang)]
    /\ calls' = [calls EXCEPT ![p].tokenizer = @ + 1]
    /\ pc' = [pc EXCEPT ![p] = "tokenized"]
    /\ UNCHANGED <<globals, raw, req, gen_args, sequences, fault, result, health, fn>>

\* translate, lines 205-213, tokenizer returns
TokenizeOk(p) ==
    /\ pc[p] = "translate"
    /\ input_text' = [input_text EXCEPT ![p] = build_model_input(req[p].text, req[p].source_lang)]
    /\ calls' = [calls EXCEPT ![p].tokenizer = @ + 1]
    /\ pc' = [pc EXCEPT ![p] = "tokenized"]
    /\ UNCHANGED <<globals, raw, req, gen_args, sequences, fault, result, health, fn>>

\* translate, lines 205-213, tokenizer(...) or .to(device) raises
TokenizeRaise(p) ==
    /\ pc[p] = "translate"
    /\ \E e \in Faults :
         /\ fault' = [fault EXCEPT ![p] = [at |-> "tokenizer", e |-> e]]
         /\ result' = [result EXCEPT ![p] = Unhandled(e)]
    /\ input_text' = [input_text EXCEPT ![p] = build_model_input(req[p].text, req[p].source_lang)]
    /\ calls' = [calls EXCEPT ![p].tokenizer = @ + 1]
    /\ pc' = [pc EXCEPT ![p] = "done"]
    /\ UNCHANGED <<globals, raw, req, gen_args, sequences, health, fn>>

GenerateArgs(p) ==
    [batch      |-> Len(<<input_text[p]>>),
     max_length |-> OrDefault(req[p].max_length),
     num_beams  |-> NumBeams]

\* translate, lines 216-222, model.generate returns
GenerateOk(p) ==
    /\ pc[p] = "tokenized"
    /\ gen_args' = [gen_args EXCEPT ![p] = GenerateArgs(p)]
    /\ calls' = [calls EXCEPT ![p].generate = @ + 1]
    /\ pc' = [pc EXCEPT ![p] = "generated"]
    /\ UNCHANGED <<globals, raw, req, input_text, sequences, fault, result, health, fn>>

GenerateRetry(p) ==
    /\ pc[p] = "tokenized"
    /\ calls[p].generate < 2
    /\ \E e \in Faults : fault' = [fault EXCEPT ![p] = [at |-> "generate", e |-> e]]
    /\ gen_args' = [gen_args EXCEPT ![p] = GenerateArgs(p)]
    /\ calls' = [calls EXCEPT ![p].generate = @ + 1]
    /\ UNCHANGED <<globals, pc, raw, req, input_text, sequences, result, health, fn>>

\* translate, lines 216-228, model.generate raises
GenerateRaise(p) ==
    /\ pc[p] = "tokenized"
    /\ \E e \in Faults :
         /\ fault' = [fault EXCEPT ![p] = [at |-> "generate", e |-> e]]
         /\ result' = [result EXCEPT ![p] =
                          HTTPException(500, <<"Model inference failed: ", e>>)]
    /\ gen_args' = [gen_args EXCEPT ![p] = GenerateArgs(p)]
    /\ calls' = [calls EXCEPT ![p].generate = @ + 1]
    /\ pc' = [pc EXCEPT ![p] = "done"]
    /\ UNCHANGED <<globals, raw, req, input_text, sequences, health, fn>>

\* translate, lines 231-242, batch_decode returns one string per generated row
DecodeRespond(p, outputs) ==
    /\ pc[p] = "generated"
    /\ \E batch \in [1..gen_args[p].batch -> outputs] :
         LET decoded == batch[1]
             cleaned == strip_lang_prefix(decoded)
         IN  /\ sequences' = [sequences EXCEPT ![p] = batch]
             /\ result' = [result EXCEPT ![p] = TranslateResponse(cleaned, decoded)]
    /\ calls' = [calls EXCEPT ![p].batch_decode = @ + 1]
    /\ pc' = [pc EXCEPT ![p] = "done"]
    /\ UNCHANGED <<globals, raw, req, input_text, gen_args, fault, health, fn>>

\* translate, lines 231-234, batch_decode raises
DecodeRaise(p) ==
    /\ pc[p] = "generated"
    /\ \E e \in Faults :
         /\ fault' = [fault EXCEPT ![p] = [at |-> "batch_decode", e |-> e]]
         /\ result' = [result EXCEPT ![p] = Unhandled(e)]
    /\ calls' = [calls EXCEPT ![p].batch_decode = @ + 1]
    /\ pc' = [pc EXCEPT ![p] = "done"]
    /\ UNCHANGED <<globals, raw, req, input_text, gen_args, sequences, health, fn>>

\* the outcome is sent and the request's frame is discarded
Complete(p) ==
    /\ pc[p] = "done"
    /\ pc' = [pc EXCEPT ![p] = "idle"]
    /\ raw' = [raw EXCEPT ![p] = NoBody]
    /\ req' = [req EXCEPT ![p] = NoReq]
    /\ input_text' = [input_text EXCEPT ![p] = <<>>]
    /\ gen_args' = [gen_args EXCEPT ![p] = NoArgs]
    /\ sequences' = [sequences EXCEPT ![p] = <<>>]
    /\ fault' = [fault EXCEPT ![p] = NoFault]
    /\ calls' = [calls EXCEPT ![p] = NoCalls]
    /\ result' = [result EXCEPT ![p] = NoResult]
    /\ UNCHANGED <<globals, health, fn>>

health_check ==
    /\ health' = [status |-> "ok", device |-> device, model_name |-> MODEL_NAME]
    /\ UNCHANGED <<globals, locals, fn>>

\* one request at a time, all request bodies and model outputs
Next ==
    \/ ReceiveRejected(1, AllBodies)
    \/ ReceiveAccepted(1, AllBodies)
    \/ TokenizeOk(1)
    \/ TokenizeRaise(1)
    \/ GenerateOk(1)
    \/ GenerateRaise(1)
    \/ DecodeRespond(1, ModelOutputs)
    \/ DecodeRaise(1)
    \/ Complete(1)
    \/ health_check

Spec == Init /\ [][Next]_vars

\* concurrent requests
NextConc ==
    \/ \E p \in Procs : ReceiveRejected(p, FewBodies)
    \/ \E p \in Procs : ReceiveAccepted(p, FewBodies)
    \/ \E p \in Procs : TokenizeOk(p)
    \/ \E p \in Procs : TokenizeRaise(p)
    \/ \E p \in Procs : GenerateOk(p)
    \/ \E p \in Procs : GenerateRaise(p)
    \/ \E p \in Procs : DecodeRespond(p, FewOutputs)
    \/ \E p \in Procs : DecodeRaise(p)
    \/ \E p \in Procs : Complete(p)
    \/ health_check

SpecConc == Init /\ [][NextConc]_vars

----------------------------------------------------------------------------
(* The helper functions applied to every bounded string *)

InitFn ==
    /\ Startup
    /\ \/ \E s \in StringsOver(Alphabet, MaxLen) :
             fn = [NoFn EXCEPT !.op = "strip", !.text = s]
       \/ \E s \in StringsOver(Alphabet, MaxLen), l \in LanguageEnum :
             fn = [NoFn EXCEPT !.op = "build", !.text = s, !.lang = l]

ApplyStrip ==
    /\ fn.op = "strip"
    /\ fn.n < 2
    /\ fn' = IF fn.n = 0
             THEN [fn EXCEPT !.out = strip_lang_prefix(fn.text), !.n = 1]
             ELSE [fn EXCEPT !.out2 = strip_lang_prefix(fn.out), !.n = 2]
    /\ UNCHANGED <<globals, locals, health>>

ApplyBuild ==
    /\ fn.op = "build"
    /\ fn.n = 0
    /\ fn' = [fn EXCEPT !.out = build_model_input(fn.text, fn.lang), !.n = 1]
    /\ UNCHANGED <<globals, locals, health>>

NextFn == ApplyStrip \/ ApplyBuild

SpecFn == InitFn /\ [][NextFn]_vars

----------------------------------------------------------------------------
(* Properties *)

\* C1: every failure raised by the tokenizer call, by model.generate or by
\* batch_decode is caught inside translate and re-signalled as HTTP 500 with
\* the cause; none leaves translate as an unhandled exception.
C1_FailuresCaught ==
    \A p \in Procs :
        fault[p].at # "" =>
            /\ result[p].kind = "http_exception"
            /\ result[p].status = 500
            /\ result[p].detail = <<"Model inference failed: ", fault[p].e>>

\* C2 as stated: applying _strip_lang_prefix twice gives the same string as
\* applying it once, for every string.
C2_Idempotent ==
    (fn.op = "strip" /\ fn.n = 2) => fn.out2 = fn.out

\* C2 amended: applying _strip_lang_prefix twice gives the same string as
\* applying it once whenever the first result does not itself start with
\* "en:" or "vi:".
C2_IdempotentUnlessMarkerRemains ==
    (/\ fn.op = "strip"
     /\ fn.n = 2
     /\ ~ StartsWith(fn.out, <<"e", "n", ":">>)
     /\ ~ StartsWith(fn.out, <<"v", "i", ":">>))
        => fn.out2 = fn.out

C2_Witness ==
    /\ fn.op = "strip"
    /\ fn.n = 2
    /\ fn.text = <<"v", "i", ":", " ", "H">>
    /\ fn.out = <<"H">>
    /\ fn.out2 = <<"H">>

\* C3: the prompt is the direction's code, a colon, one space and the text;
\* it starts with "vi: " for vi and "en: " for en, and dropping those four
\* characters gives back the text unchanged.
C3_PromptRoundTrip ==
    (fn.op = "build" /\ fn.n = 1) =>
        /\ Len(fn.out) = Len(fn.text) + 4
        /\ SubSeq(fn.out, 1, 4) = (IF fn.lang = <<"v", "i">>
                                   THEN <<"v", "i", ":", " ">>
                                   ELSE <<"e", "n", ":", " ">>)
        /\ SubSeq(fn.out, 1, 2) = fn.lang
        /\ SubSeq(fn.out, 5, Len(fn.out)) = fn.text

C3_Witness ==
    /\ fn.op = "build"
    /\ fn.n = 1
    /\ fn.lang = <<"v", "i">>
    /\ fn.text = <<" ", "H", " ">>
    /\ fn.out = <<"v", "i", ":", " ", " ", "H", " ">>

\* C4 as stated: on success raw_output is the decoded output and
\* translated_text is raw_output without its leading "en:"/"vi:" and the
\* whitespace after it (nothing else removed), or raw_output trimmed when it
\* has no such marker.
C4_MarkerAndFollowingBlanksRemoved ==
    \A p \in Procs :
        result[p].kind = "response" =>
            LET r == result[p].raw_output
            IN  /\ r = sequences[p][1]
                /\ result[p].translated_text =
                     IF StartsWith(r, <<"e", "n", ":">>) \/ StartsWith(r, <<"v", "i", ":">>)
                     THEN LStrip(SubSeq(r, 4, Len(r)))
                     ELSE Strip(r)

\* C4 amended: on success raw_output is the decoded output and
\* translated_text is raw_output without its leading "en:"/"vi:", with the
\* whitespace on both sides of the remainder removed, or raw_output trimmed
\* when it has no such marker.
C4_MarkerRemovedAndTrimmed ==
    \A p \in Procs :
        result[p].kind = "response" =>
            LET r == result[p].raw_output
            IN  /\ r = sequences[p][1]
                /\ result[p].translated_text =
                     IF StartsWith(r, <<"e", "n", ":">>) \/ StartsWith(r, <<"v", "i", ":">>)
                     THEN Strip(SubSeq(r, 4, Len(r)))
                     ELSE Strip(r)

C4_Witness ==
    /\ result[1].kind = "response"
    /\ result[1].raw_output = <<"e", "n", ":", " ", "H", " ">>
    /\ result[1].translated_text = <<"H">>

\* C5: an integer max_length outside 1..512 is rejected with a validation
\* error, 1 and 512 are accepted, and the limit given to model.generate is in
\* 1..512: the request's max_length when it carries one, else 256.
C5_MaxLengthBounds ==
    \A p \in Procs :
        LET ml == raw[p].max_length
        IN  /\ (pc[p] # "idle" /\ ml.kind = "int" /\ ml.value \notin 1..512) =>
                   /\ result[p].kind = "validation_error"
                   /\ \E i \in 1..Len(result[p].detail) : result[p].detail[i] = "max_length"
            /\ (/\ pc[p] # "idle"
                /\ ml.kind = "int"
                /\ ml.value \in {1, 512}
                /\ raw[p].has_text
                /\ raw[p].source_lang \in {<<"e", "n">>, <<"v", "i">>}) =>
                   result[p].kind # "validation_error"
            /\ calls[p].generate > 0 =>
                   /\ gen_args[p].max_length \in 1..512
                   /\ gen_args[p].max_length = (IF ml.kind = "int" THEN ml.value ELSE 256)

C5_Witness ==
    /\ calls[1].generate = 1
    /\ raw[1].max_length = [kind |-> "int", value |-> 512]
    /\ gen_args[1].max_length = 512

\* C6: a source_lang other than exactly "en" or "vi" is rejected with a
\* validation error naming the field and yields no translation; only en and
\* vi reach prompt construction.
C6_InvalidDirectionRejected ==
    \A p \in Procs :
        /\ (pc[p] # "idle" /\ raw[p].source_lang \notin {<<"e", "n">>, <<"v", "i">>}) =>
               /\ result[p].kind = "validation_error"
               /\ \E i \in 1..Len(result[p].detail) : result[p].detail[i] = "source_lang"
               /\ input_text[p] = <<>>
        /\ calls[p].tokenizer > 0 =>
               /\ req[p].source_lang \in {<<"e", "n">>, <<"v", "i">>}
               /\ req[p].source_lang = raw[p].source_lang

C6_Witness ==
    /\ raw[1].source_lang = <<"E", "N">>
    /\ raw[1].has_text
    /\ raw[1].max_length.kind = "absent"
    /\ result[1].kind = "validation_error"
    /\ result[1].detail = <<"source_lang">>

\* C7: a request that fails validation (missing text, bad source_lang,
\* non-integer or out-of-range max_length) gets its validation error with no
\* tokenizer, model.generate or batch_decode call made for it.
C7_ValidationBeforeModelWork ==
    \A p \in Procs :
        LET ml == raw[p].max_length
            bad == \/ ~ raw[p].has_text
                   \/ raw[p].source_lang \notin {<<"e", "n">>, <<"v", "i">>}
                   \/ ml.kind = "nonint"
                   \/ (ml.kind = "int" /\ (ml.value < 1 \/ ml.value > 512))
        IN  (pc[p] # "idle" /\ bad) =>
                /\ pc[p] = "done"
                /\ result[p].kind = "validation_error"
                /\ calls[p].tokenizer = 0
                /\ calls[p].generate = 0
                /\ calls[p].batch_decode = 0

C7_Witness ==
    /\ pc[1] = "done"
    /\ ~ raw[1].has_text
    /\ raw[1].max_length.kind = "nonint"
    /\ result[1].kind = "validation_error"
    /\ calls[1].tokenizer = 0

\* C8: when model.generate raises, the outcome is HTTP 500 whose message
\* contains the fault's description and there is no TranslateResponse; every
\* finished request has either a response with both fields taken from the
\* decoded output or a failure carrying neither.
C8_GenerateFailureIs500 ==
    \A p \in Procs :
        /\ fault[p].at = "generate" =>
               /\ result[p].kind = "http_exception"
               /\ result[p].status = 500
               /\ \E i \in 1..Len(result[p].detail) : result[p].detail[i] = fault[p].e
        /\ pc[p] = "done" =>
               \/ /\ result[p].kind = "response"
                  /\ fault[p].at = ""
                  /\ calls[p].batch_decode = 1
                  /\ result[p].raw_output = sequences[p][1]
               \/ /\ result[p].kind \in {"validation_error", "http_exception", "unhandled"}
                  /\ result[p].status >= 400
                  /\ result[p].translated_text = <<>>
                  /\ result[p].raw_output = <<>>
                  /\ sequences[p] = <<>>

C8_Witness ==
    /\ pc[1] = "done"
    /\ fault[1] = [at |-> "generate", e |-> "CUDA out of memory"]
    /\ result[1].status = 500
    /\ result[1].detail = <<"Model inference failed: ", "CUDA out of memory">>

\* C9: model.generate is called at most once per request and exactly once
\* when the tokenizer call succeeded, with a batch of one prompt and four
\* beams; a generate failure ends the request without a retry or a decode,
\* and the response carries the first decoded sequence.
C9_SingleLinearPass ==
    \A p \in Procs :
        /\ calls[p].tokenizer <= 1
        /\ calls[p].generate <= 1
        /\ calls[p].batch_decode <= 1
        /\ (pc[p] = "done" /\ calls[p].tokenizer = 1 /\ fault[p].at # "tokenizer") =>
               calls[p].generate = 1
        /\ calls[p].generate >= 1 =>
               /\ gen_args[p].batch = 1
               /\ gen_args[p].num_beams = 4
        /\ fault[p].at = "generate" =>
               /\ pc[p] = "done"
               /\ calls[p].batch_decode = 0
        /\ result[p].kind = "response" =>
               /\ Len(sequences[p]) = 1
               /\ result[p].raw_output = Head(sequences[p])

C9_Witness ==
    /\ pc[1] = "done"
    /\ fault[1].at = "generate"
    /\ calls[1] = [tokenizer |-> 1, generate |-> 1, batch_decode |-> 0]
    /\ gen_args[1].num_beams = 4

\* C10: with requests interleaved, no step writes MODEL_NAME, device,
\* tokenizer or model; a step touches the data of at most one request; each
\* request's prompt, limit and response are determined by its own body and
\* its own decoded output; health_check reports "ok", the device and the
\* model name.
C10_RequestsIndependent ==
    /\ [](/\ \A p \in Procs :
               /\ calls[p].tokenizer > 0 =>
                      input_text[p] = raw[p].source_lang \o <<":", " ">> \o raw[p].text
               /\ calls[p].generate > 0 =>
                      gen_args[p].max_length =
                          (IF raw[p].max_length.kind = "int"
                           THEN raw[p].max_length.value ELSE 256)
               /\ result[p].kind = "response" =>
                      result[p].raw_output = sequences[p][1]
          /\ MODEL_NAME = "VietAI/envit5-translation"
          /\ health.status # "" =>
                 health = [status |-> "ok", device |-> device,
                           model_name |-> "VietAI/envit5-translation"])
    /\ [][/\ MODEL_NAME' = MODEL_NAME
          /\ device' = device
          /\ tokenizer' = tokenizer
          /\ model' = model
          /\ \A p, q \in Procs :
                 (p # q /\ pc[p]' # pc[p]) =>
                     /\ pc[q]' = pc[q]
                     /\ raw[q]' = raw[q]
                     /\ req[q]' = req[q]
                     /\ input_text[q]' = input_text[q]
                     /\ gen_args[q]' = gen_args[q]
                     /\ sequences[q]' = sequences[q]
                     /\ fault[q]' = fault[q]
                     /\ calls[q]' = calls[q]
                     /\ result[q]' = result[q]]_vars

C10_Witness ==
    /\ pc[1] = "generated"
    /\ pc[2] = "tokenized"
    /\ raw[1].source_lang # raw[2].source_lang
    /\ input_text[1] # input_text[2]
    /\ health.status = "ok"

====
